---- MODULE Spec2Model ----
(***************************************************************************)
(* Model of src/app.py: the LlamaParseAgentService wrapper and the         *)
(* Streamlit script main().  Every browser session runs main() in its own  *)
(* script thread; one triggered run of the translate branch (lines        *)
(* 100-154) is one interaction.  Python strings are sequences of one-      *)
(* character strings, Python values that may be None are tagged records.   *)
(***************************************************************************)
EXTENDS Naturals, Sequences, FiniteSets

\* ------------------------------------------------------------ bounds
NumSessions == 2
NumTmpNames == 2
MaxSegments == 3
MaxStemLen == 2
MaxPromptLen == 2
MaxKeyLen == 2

\* The sequences over S of length at most n.
BoundedSeq(S, n) == UNION { [1..k -> S] : k \in 0..n }

\* ------------------------------------------------------------ Python values
PyNone == [type |-> "NoneType"]
PyStr(v) == [type |-> "str", val |-> v]

\* bool(x) for None and str: None and "" are falsy.
Truthy(x) == IF x.type = "NoneType" THEN FALSE ELSE Len(x.val) > 0

\* Mutant of Join: the separator is appended after every element.
RECURSIVE JoinTrailing(_, _)
JoinTrailing(sep, items) ==
    IF items = << >> THEN << >>
    ELSE Head(items) \o sep \o JoinTrailing(sep, Tail(items))

\* str.join: the items in order, sep between consecutive items.
RECURSIVE Join(_, _)
Join(sep, items) ==
    IF items = << >> THEN << >>
    ELSE IF Len(items) = 1 THEN items[1]
    ELSE Head(items) \o sep \o Join(sep, Tail(items))

\* Index of the last occurrence of character c in s, 0 when there is none.
RECURSIVE RFind(_, _)
RFind(s, c) ==
    IF s = << >> THEN 0
    ELSE IF s[Len(s)] = c THEN Len(s)
    ELSE RFind(SubSeq(s, 1, Len(s) - 1), c)

\* Index of the first occurrence of character c in s, 0 when there is none.
RECURSIVE Find(_, _)
Find(s, c) ==
    IF s = << >> THEN 0
    ELSE IF Head(s) = c THEN 1
    ELSE LET r == Find(Tail(s), c) IN IF r = 0 THEN 0 ELSE r + 1

\* Mutant of RSplit: str.split, which cuts at the first separators.
RECURSIVE Split(_, _, _)
Split(s, c, maxsplit) ==
    LET i == Find(s, c) IN
    IF maxsplit = 0 \/ i = 0 THEN << s >>
    ELSE << SubSeq(s, 1, i - 1) >> \o Split(SubSeq(s, i + 1, Len(s)), c, maxsplit - 1)

\* str.rsplit(c, maxsplit): at most maxsplit cuts, taken from the right.
RECURSIVE RSplit(_, _, _)
RSplit(s, c, maxsplit) ==
    LET i == RFind(s, c) IN
    IF maxsplit = 0 \/ i = 0 THEN << s >>
    ELSE RSplit(SubSeq(s, 1, i - 1), c, maxsplit - 1) \o << SubSeq(s, i + 1, Len(s)) >>

\* ------------------------------------------------------------ literals
NL == "\n"
Separator == << NL, NL >>
TranslatedSuffix == << "_", "t", "r", "a", "n", "s", "l", "a", "t", "e", "d", ".", "m", "d" >>
DotPdf == << ".", "p", "d", "f" >>
MimeMarkdown == "text/markdown"
DefaultModel == "parse_document_with_agent"
translation_prompt == PyStr(<< "T" >>)
ConfigMessage == "LLAMA_CLOUD_API_KEY environment variable not set"

\* ------------------------------------------------------------ exceptions
NoExc == "none"
ValueError == "ValueError: LLAMA_CLOUD_API_KEY not provided"
FileExistsError == "FileExistsError: No usable temporary file name found"
WriteError == "OSError: write failed"
FileNotFoundError == "FileNotFoundError: temporary file"
RenderError == "StreamlitAPIException"
ExternalErrors == { "NetworkError", "AuthError" }

\* ------------------------------------------------------------ LlamaParseAgentService
\* The outcome of a call: kind is "return" (with value) or "raise" (with exc);
\* "none" is a call that has not completed.
Return(v) == [kind |-> "return", exc |-> NoExc, value |-> v]
Raise(e) == [kind |-> "raise", exc |-> e, value |-> PyNone]
NoOutcome == [kind |-> "none", exc |-> NoExc, value |-> PyNone]

\* Mutant of LlamaParseAgentService_init: only None is rejected ("is None").
LlamaParseAgentService_init_isNone(prompt, api_key) ==
    IF api_key.type = "NoneType"
    THEN Raise(ValueError)
    ELSE Return([api_key |-> api_key, prompt |-> prompt, model |-> DefaultModel])

\* __init__(self, prompt, api_key, model="parse_document_with_agent"): raises
\* ValueError or returns the object with its three attributes set.
LlamaParseAgentService_init(prompt, api_key) ==
    IF ~Truthy(api_key)
    THEN Raise(ValueError)
    ELSE Return([api_key |-> api_key, prompt |-> prompt, model |-> DefaultModel])

\* _collate_markdown_output(self, parsed_markdown)
collate_markdown_output(parsed_markdown) ==
    Join(Separator, [i \in 1..Len(parsed_markdown) |-> parsed_markdown[i].text])

\* Mutant of parse_document: the handler swallows the error and returns "".
parse_document_swallow(self, file_path, ext) ==
    IF ext.kind = "raise"
    THEN Return(PyStr(<< >>))
    ELSE Return(PyStr(collate_markdown_output(ext.value)))

\* parse_document(self, file_path): the outcome of the call, given the outcome
\* ext of the external call (LlamaParse(...) and load_data) in its try block.
parse_document(self, file_path, ext) ==
    IF ext.kind = "raise"
    THEN Raise(ext.exc)
    ELSE Return(PyStr(collate_markdown_output(ext.value)))

\* Mutant of download_file_name: split instead of rsplit.
download_file_name_split(name) == Split(name, ".", 1)[1] \o TranslatedSuffix

\* f"{uploaded_file.name.rsplit('.', 1)[0]}_translated.md"
download_file_name(name) == RSplit(name, ".", 1)[1] \o TranslatedSuffix

\* ------------------------------------------------------------ state
Sessions == 1..NumSessions
TmpNames == 1..NumTmpNames

\* A file of user s named name.  The bytes of a user's files are that user's:
\* no two users hold the same bytes.
File(s, name) == [present |-> TRUE, name |-> name, bytes |-> << "pdf of", s >>]
NoUpload == [present |-> FALSE, name |-> << >>, bytes |-> << >>]
DocPdf == << "d", "o", "c" >> \o DotPdf

\* File names the uploader accepts (type=['pdf']): a stem, then ".pdf".
PdfNames == { DocPdf } \cup { stem \o DotPdf : stem \in BoundedSeq({ "a", "." }, MaxStemLen) }

\* Texts of returned documents (one ends in a newline, one is empty), and the
\* document lists the external service may return: the two examples of the
\* specification and every list of at most MaxSegments such texts.
Texts == { << "A", NL >>, << >> }
Hello == << "H", "e", "l", "l", "o" >>
Docs(ts) == [i \in DOMAIN ts |-> [text |-> ts[i]]]
Responses ==
    { Docs(<< Hello >>), Docs(<< << "A" >>, << "B" >>, << "C" >> >>) }
        \cup { Docs(ts) : ts \in BoundedSeq(Texts, MaxSegments) }

\* Every outcome of the external call: a returned list or a fault.
ExternalOutcomes ==
    { Return(docs) : docs \in Responses } \cup { Raise(e) : e \in ExternalErrors }

\* One response and one fault.
ConcurrentOutcomes ==
    { Return(Docs(<< << "A", NL >>, << >> >>)), Raise("NetworkError") }

\* Values of LLAMA_CLOUD_API_KEY in the process environment: unset, empty, set.
EnvValues == { PyNone, PyStr(<< >>), PyStr(<< "k" >>) }

Absent == [exists |-> FALSE, data |-> << >>]
NoDownload == [offered |-> FALSE, data |-> PyNone, file_name |-> << >>, mime |-> "none"]
BlankPage == [error |-> NoExc, tab1 |-> PyNone, tab2 |-> PyNone, download |-> NoDownload]
NoService == [api_key |-> PyNone, prompt |-> PyNone, model |-> "none"]

VARIABLES
    scenario,         \* who uses the app: "one user", "several users" or nobody
    environ,          \* os.environ["LLAMA_CLOUD_API_KEY"], PyNone when unset
    fs,               \* the temporary directory: name -> file
    upload,           \* per session: uploaded_file
    pc,               \* per session: position of the script thread in main()
    api_key,          \* per session: local api_key (line 61)
    tmp_file,         \* per session: name of the NamedTemporaryFile object, 0 if none
    tmp_file_path,    \* per session: local tmp_file_path, 0 if unassigned
    service,          \* per session: local service
    ext,              \* per session: outcome of the external call of this run
    pd,               \* per session: outcome of parse_document of this run
    markdown_output,  \* per session: local markdown_output
    exc,              \* per session: exception in flight or caught
    calls,            \* per session: external calls issued in this run
    page,             \* per session: what the run has put on the page
    probe             \* a call of the constructor on its own: arguments and outcome

vars == << scenario, environ, fs, upload, pc, api_key, tmp_file,
           tmp_file_path, service,
           ext, pd, markdown_output, exc, calls, page, probe >>

\* Fixed while the app runs.
world == << scenario, environ >>

\* The browser sessions connected to the app.
sessions == IF scenario = "several users" THEN Sessions ELSE { 1 }

\* The files the user of session s has at hand to upload: every accepted name
\* for a single user, one file each for several users.
catalog(s) ==
    IF scenario = "one user" THEN { File(s, n) : n \in PdfNames } ELSE { File(s, DocPdf) }

\* What the external collaborator may do with a request.
outcomes == IF scenario = "one user" THEN ExternalOutcomes ELSE ConcurrentOutcomes

\* The locals of main() that a run assigns inside the try block.
frame == << tmp_file, tmp_file_path, service, markdown_output, exc >>

\* What is recorded of the current run: the external calls it issued, the
\* outcome of the external call and the outcome of parse_document.
record == << calls, ext, pd >>

NoProbe == [fn |-> "none", prompt |-> PyNone, api_key |-> PyNone, out |-> NoOutcome]

\* os.environ.get("LLAMA_CLOUD_API_KEY", "")
os_environ_get(env, default) == IF env.type = "NoneType" THEN default ELSE env

\* The state after the app has started with credential env and every session
\* of scenario sc has loaded the page once (a script run without a button
\* press and without an upload).
InitApp(sc, env) ==
    /\ scenario = sc
    /\ environ = env
    /\ fs = [n \in TmpNames |-> Absent]
    /\ upload = [s \in sessions |-> NoUpload]
    /\ pc = [s \in sessions |-> "idle"]
    /\ api_key = [s \in sessions |-> os_environ_get(env, PyStr(<< >>))]
    /\ tmp_file = [s \in sessions |-> 0]
    /\ tmp_file_path = [s \in sessions |-> 0]
    /\ service = [s \in sessions |-> NoService]
    /\ ext = [s \in sessions |-> NoOutcome]
    /\ pd = [s \in sessions |-> NoOutcome]
    /\ markdown_output = [s \in sessions |-> PyNone]
    /\ exc = [s \in sessions |-> NoExc]
    /\ calls = [s \in sessions |-> 0]
    /\ page = [s \in sessions |-> BlankPage]

\* One user, every credential setting, every accepted file name, every outcome
\* of the external call.
Init ==
    /\ \E env \in EnvValues : InitApp("one user", env)
    /\ probe = NoProbe

\* Several users at once, each with a file of their own, the credential set.
InitConcurrent ==
    /\ InitApp("several users", PyStr(<< "k" >>))
    /\ probe = NoProbe

\* A script run of session s starts: api_key is read from the environment
\* (line 61), the page is drawn anew, nothing is recorded of the run yet.
Rerun(s) ==
    /\ api_key' = [api_key EXCEPT ![s] = os_environ_get(environ, PyStr(<< >>))]
    /\ ext' = [ext EXCEPT ![s] = NoOutcome]
    /\ pd' = [pd EXCEPT ![s] = NoOutcome]
    /\ calls' = [calls EXCEPT ![s] = 0]

\* main() returns in session s: its locals are gone.
Release(s) ==
    /\ tmp_file' = [tmp_file EXCEPT ![s] = 0]
    /\ tmp_file_path' = [tmp_file_path EXCEPT ![s] = 0]
    /\ service' = [service EXCEPT ![s] = NoService]
    /\ markdown_output' = [markdown_output EXCEPT ![s] = PyNone]
    /\ exc' = [exc EXCEPT ![s] = NoExc]

\* Mutant of TryBlock: the try block ends before the rendering calls.
TryBlockRenderOutside ==
    { "tmpfile", "write", "construct", "parse", "loading", "unlink" }

\* The statements of main() enclosed by the try of line 105.
TryBlock ==
    { "tmpfile", "write", "construct", "parse", "loading", "unlink", "render" }

\* An exception e is raised at the current position of session s, the page
\* showing drawn so far.  Inside the try block the handler of lines 152-154
\* runs (st.error with str(e), logging.error) and main() runs to its end;
\* outside it the exception leaves main().
ThrowWith(s, e, drawn) ==
    IF pc[s] \in TryBlock
    THEN /\ page' = [page EXCEPT ![s] = [drawn EXCEPT !.error = e]]
         /\ pc' = [pc EXCEPT ![s] = "done"]
         /\ Release(s)
    ELSE /\ page' = [page EXCEPT ![s] = drawn]
         /\ pc' = [pc EXCEPT ![s] = "uncaught"]
         /\ exc' = [exc EXCEPT ![s] = e]
         /\ UNCHANGED << tmp_file, tmp_file_path, service, markdown_output >>

Throw(s, e) == ThrowWith(s, e, page[s])

\* The user picks a file in the uploader: the script reruns without the button.
Upload(s, f) ==
    /\ pc[s] \in { "idle", "done" }
    /\ upload[s] # f
    /\ upload' = [upload EXCEPT ![s] = f]
    /\ Rerun(s)
    /\ page' = [page EXCEPT ![s] = BlankPage]
    /\ pc' = [pc EXCEPT ![s] = "idle"]
    /\ UNCHANGED << world, fs, frame, probe >>

\* Mutant of Trigger: the credential guard of line 102 is missing.
TriggerUnguarded(s) ==
    /\ pc[s] \in { "idle", "done" }
    /\ upload[s].present
    /\ Rerun(s)
    /\ page' = [page EXCEPT ![s] = BlankPage]
    /\ pc' = [pc EXCEPT ![s] = "tmpfile"]
    /\ UNCHANGED << world, fs, upload, frame, probe >>

\* The user presses the translate button (lines 100-104): the script reruns,
\* st.button returns True, and the run is blocked when api_key is falsy.
Trigger(s) ==
    /\ pc[s] \in { "idle", "done" }
    /\ upload[s].present
    /\ Rerun(s)
    /\ IF ~Truthy(api_key'[s])
       THEN /\ page' = [page EXCEPT ![s] = [BlankPage EXCEPT !.error = ConfigMessage]]
            /\ pc' = [pc EXCEPT ![s] = "done"]
       ELSE /\ page' = [page EXCEPT ![s] = BlankPage]
            /\ pc' = [pc EXCEPT ![s] = "tmpfile"]
    /\ UNCHANGED << world, fs, upload, frame, probe >>

\* Mutant of TmpCandidates: a fixed path opened for writing, existing or not.
TmpCandidatesShared(dir) == { 1 }

\* The names NamedTemporaryFile may create in directory dir: it opens with
\* O_EXCL, so never a name that exists.
TmpCandidates(dir) == { n \in TmpNames : ~dir[n].exists }

\* Line 108: tempfile.NamedTemporaryFile(delete=False, suffix='.pdf'); it
\* raises FileExistsError when it finds no usable name.
TmpCreate(s) ==
    /\ pc[s] = "tmpfile"
    /\ \/ \E n \in TmpCandidates(fs) :
            /\ fs' = [fs EXCEPT ![n] = [exists |-> TRUE, data |-> << >>]]
            /\ tmp_file' = [tmp_file EXCEPT ![s] = n]
            /\ pc' = [pc EXCEPT ![s] = "write"]
            /\ UNCHANGED << tmp_file_path, service, markdown_output, exc, page >>
       \/ /\ TmpCandidates(fs) = { }
          /\ Throw(s, FileExistsError)
          /\ UNCHANGED fs
    /\ UNCHANGED << world, upload, api_key, record, probe >>

\* Lines 109-110: the bytes are written, the with block closes the file and
\* tmp_file_path is assigned.
TmpWrite(s) ==
    /\ pc[s] = "write"
    /\ fs' = [fs EXCEPT ![tmp_file[s]] = [exists |-> TRUE, data |-> upload[s].bytes]]
    /\ tmp_file_path' = [tmp_file_path EXCEPT ![s] = tmp_file[s]]
    /\ pc' = [pc EXCEPT ![s] = "construct"]
    /\ UNCHANGED << world, upload, api_key, tmp_file, service, markdown_output, exc,
                    record, page, probe >>

\* Line 109 raises (the disk is full): the with block closes the file, which
\* stays (delete=False), and tmp_file_path is never assigned.
TmpWriteRaise(s) ==
    /\ pc[s] = "write"
    /\ Throw(s, WriteError)
    /\ UNCHANGED << world, fs, upload, api_key, record, probe >>

\* Lines 121-124: service = LlamaParseAgentService(prompt=..., api_key=api_key).
Construct(s) ==
    /\ pc[s] = "construct"
    /\ LET r == LlamaParseAgentService_init(translation_prompt, api_key[s]) IN
         IF r.kind = "raise"
         THEN Throw(s, r.exc)
         ELSE /\ service' = [service EXCEPT ![s] = r.value]
              /\ pc' = [pc EXCEPT ![s] = "parse"]
              /\ UNCHANGED << tmp_file, tmp_file_path, markdown_output, exc, page >>
    /\ UNCHANGED << world, fs, upload, api_key, record, probe >>

\* Lines 126, 33-41: parse_document is entered and issues the external call,
\* which blocks this script thread.
ParseCall(s) ==
    /\ pc[s] = "parse"
    /\ calls' = [calls EXCEPT ![s] = @ + 1]
    /\ pc' = [pc EXCEPT ![s] = "loading"]
    /\ UNCHANGED << world, fs, upload, api_key, frame, ext, pd, page, probe >>

\* Mutant of ParseDone: a failed external call is issued again.
ParseDoneRetry(s, e) ==
    /\ pc[s] = "loading"
    /\ LET r == parse_document(service[s], tmp_file_path[s], e) IN
         /\ ext' = [ext EXCEPT ![s] = e]
         /\ pd' = [pd EXCEPT ![s] = r]
         /\ IF r.kind = "raise"
            THEN /\ pc' = [pc EXCEPT ![s] = "parse"]
                 /\ UNCHANGED << frame, page >>
            ELSE /\ markdown_output' = [markdown_output EXCEPT ![s] = r.value]
                 /\ pc' = [pc EXCEPT ![s] = "unlink"]
                 /\ UNCHANGED << tmp_file, tmp_file_path, service, exc, page >>
    /\ UNCHANGED << world, fs, upload, api_key, calls, probe >>

\* Mutant of ParseDone: main() goes on with an empty result after a failure.
ParseDoneGoesOn(s, e) ==
    /\ pc[s] = "loading"
    /\ LET r == parse_document(service[s], tmp_file_path[s], e) IN
         /\ ext' = [ext EXCEPT ![s] = e]
         /\ pd' = [pd EXCEPT ![s] = r]
         /\ markdown_output' = [markdown_output EXCEPT ![s] =
                                  IF r.kind = "raise" THEN PyStr(<< >>) ELSE r.value]
         /\ pc' = [pc EXCEPT ![s] = "unlink"]
         /\ UNCHANGED << tmp_file, tmp_file_path, service, exc, page >>
    /\ UNCHANGED << world, fs, upload, api_key, calls, probe >>

\* Lines 41-47, 126: the external call completes with outcome e, parse_document
\* completes, and main() assigns markdown_output or the exception propagates.
ParseDone(s, e) ==
    /\ pc[s] = "loading"
    /\ LET r == parse_document(service[s], tmp_file_path[s], e) IN
         /\ ext' = [ext EXCEPT ![s] = e]
         /\ pd' = [pd EXCEPT ![s] = r]
         /\ IF r.kind = "raise"
            THEN Throw(s, r.exc)
            ELSE /\ markdown_output' = [markdown_output EXCEPT ![s] = r.value]
                 /\ pc' = [pc EXCEPT ![s] = "unlink"]
                 /\ UNCHANGED << tmp_file, tmp_file_path, service, exc, page >>
    /\ UNCHANGED << world, fs, upload, api_key, calls, probe >>

\* Line 129: os.unlink(tmp_file_path).
Unlink(s) ==
    /\ pc[s] = "unlink"
    /\ IF fs[tmp_file_path[s]].exists
       THEN /\ fs' = [fs EXCEPT ![tmp_file_path[s]] = Absent]
            /\ pc' = [pc EXCEPT ![s] = "render"]
            /\ UNCHANGED << frame, page >>
       ELSE Throw(s, FileNotFoundError) /\ UNCHANGED fs
    /\ UNCHANGED << world, upload, api_key, record, probe >>

\* The page after the first k of the three rendering calls: st.markdown in
\* tab1 (line 138), st.code in tab2 (line 141), st.download_button (144-150).
Drawn(s, k) ==
    [error |-> NoExc,
     tab1 |-> IF k >= 1 THEN markdown_output[s] ELSE PyNone,
     tab2 |-> IF k >= 2 THEN markdown_output[s] ELSE PyNone,
     download |-> IF k >= 3
                  THEN [offered |-> TRUE, data |-> markdown_output[s],
                        file_name |-> download_file_name(upload[s].name),
                        mime |-> MimeMarkdown]
                  ELSE NoDownload]

\* Lines 132-150: the results are displayed and main() runs to its end.
Render(s) ==
    /\ pc[s] = "render"
    /\ page' = [page EXCEPT ![s] = Drawn(s, 3)]
    /\ pc' = [pc EXCEPT ![s] = "done"]
    /\ Release(s)
    /\ UNCHANGED << world, fs, upload, api_key, record, probe >>

\* Lines 132-150: the rendering call after the first k raises.
RenderRaise(s, k) ==
    /\ pc[s] = "render"
    /\ ThrowWith(s, RenderError, Drawn(s, k))
    /\ UNCHANGED << world, fs, upload, api_key, record, probe >>

Next ==
    \/ \E s \in sessions : \E f \in catalog(s) : Upload(s, f)
    \/ \E s \in sessions : Trigger(s)
    \/ \E s \in sessions : TmpCreate(s)
    \/ \E s \in sessions : TmpWrite(s)
    \/ \E s \in sessions : TmpWriteRaise(s)
    \/ \E s \in sessions : Construct(s)
    \/ \E s \in sessions : ParseCall(s)
    \/ \E s \in sessions : \E e \in outcomes : ParseDone(s, e)
    \/ \E s \in sessions : Unlink(s)
    \/ \E s \in sessions : Render(s)
    \/ \E s \in sessions : \E k \in 0..2 : RenderRaise(s, k)

Spec == Init /\ [][Next]_vars

ConcurrentSpec == InitConcurrent /\ [][Next]_vars

\* ------------------------------------------------------------ the constructor alone
\* Arguments of LlamaParseAgentService(prompt, api_key): any instruction, any
\* credential, None included.
Prompts == { PyStr(p) : p \in BoundedSeq({ "T", "x" }, MaxPromptLen) }
Credentials == { PyNone } \cup { PyStr(k) : k \in BoundedSeq({ "k", "e" }, MaxKeyLen) }

InitConstructor ==
    /\ InitApp("nobody", PyNone)
    /\ \E p \in Prompts, k \in Credentials :
         probe = [fn |-> "LlamaParseAgentService", prompt |-> p, api_key |-> k,
                  out |-> NoOutcome]

\* LlamaParseAgentService(prompt=probe.prompt, api_key=probe.api_key) is called.
CallConstructor ==
    /\ probe.out.kind = "none"
    /\ probe' = [probe EXCEPT !.out = LlamaParseAgentService_init(probe.prompt, probe.api_key)]
    /\ UNCHANGED << world, fs, upload, pc, api_key, frame, record, page >>

NextConstructor == CallConstructor

ConstructorSpec == InitConstructor /\ [][NextConstructor]_vars

\* ------------------------------------------------------------ claims

\* C1: the temporary file created for an interaction is released on every
\* exit path: whenever a run ends, the file it created no longer exists.
C1_TempFileReleasedOnEveryExit ==
    [][\A s \in sessions :
          (pc[s] # "done" /\ pc'[s] = "done" /\ tmp_file[s] # 0)
              => ~fs'[tmp_file[s]].exists]_vars

\* C2: when the external call raised, parse_document raised that same error
\* and returned no string, and main() holds no result.
C2_ReRaisesSameError ==
    \A s \in sessions :
        ext[s].kind = "raise"
            => /\ pd[s].kind = "raise"
               /\ pd[s].exc = ext[s].exc
               /\ pd[s].value = PyNone
               /\ markdown_output[s] = PyNone

C2_Witness ==
    \E s \in sessions : ext[s].kind = "raise" /\ ext[s].exc = "AuthError" /\ pc[s] = "done"

\* C3: the constructor raises ValueError for a credential that is None or
\* empty, and for a non-empty credential and a non-empty instruction returns
\* the object with prompt and api_key as passed.
C3_ConstructorContract ==
    probe.out.kind # "none"
        => IF probe.api_key = PyNone \/ probe.api_key = PyStr(<< >>)
           THEN probe.out.kind = "raise" /\ probe.out.exc = ValueError
           ELSE probe.prompt # PyStr(<< >>)
                    => /\ probe.out.kind = "return"
                       /\ probe.out.value.prompt = probe.prompt
                       /\ probe.out.value.api_key = probe.api_key

C3_Witness ==
    /\ probe.api_key = PyStr(<< >>)
    /\ probe.prompt = PyStr(<< "T", "x" >>)
    /\ probe.out.kind = "raise"

\* Where the text of document i starts in the collated string, less one.
RECURSIVE Offset(_, _)
Offset(docs, i) ==
    IF i = 1 THEN 0 ELSE Offset(docs, i - 1) + Len(docs[i - 1].text) + 2

\* out is the texts of docs in order with "\n\n" between consecutive texts and
\* nothing before, after or besides.
Collated(docs, out) ==
    LET n == Len(docs) IN
    /\ n = 0 => out = << >>
    /\ n = 1 => out = docs[1].text
    /\ n >= 1 => Len(out) = Offset(docs, n) + Len(docs[n].text)
    /\ \A i \in 1..n :
         SubSeq(out, Offset(docs, i) + 1, Offset(docs, i) + Len(docs[i].text)) = docs[i].text
    /\ \A i \in 2..n :
         SubSeq(out, Offset(docs, i) - 1, Offset(docs, i)) = << "\n", "\n" >>

\* C4: the string parse_document returns is the texts of the returned
\* segments in order, separated by exactly "\n\n", with no leading or
\* trailing separator.
C4_CollationJoinsInOrder ==
    \A s \in sessions :
        pd[s].kind = "return"
            => pd[s].value.type = "str" /\ Collated(ext[s].value, pd[s].value.val)

C4_Witness ==
    \E s \in sessions :
        /\ pd[s].kind = "return"
        /\ Len(ext[s].value) = 3
        /\ ext[s].value[2].text = << >>
        /\ ext[s].value[3].text # << >>

\* C5: with no credential in the environment a triggered run is blocked and
\* reported: no external call, no client, no temporary file.
C5_BlockedWithoutCredential ==
    (environ = PyNone \/ environ = PyStr(<< >>))
        => /\ \A n \in TmpNames : ~fs[n].exists
           /\ \A s \in sessions :
                /\ calls[s] = 0
                /\ ext[s].kind = "none"
                /\ service[s] = NoService
                /\ tmp_file[s] = 0
                /\ pc[s] \in { "idle", "done" }
                /\ pc[s] = "done" => page[s].error = ConfigMessage

C5_Witness ==
    \E s \in sessions : environ = PyNone /\ pc[s] = "done" /\ page[s].error = ConfigMessage

\* C6: no exception of the triggered sequence leaves main(): a run that has
\* ended shows the result or a failure message, and the button can be
\* pressed again.
C6_ExceptionsCaughtAndRestartReady ==
    \A s \in sessions :
        /\ pc[s] # "uncaught"
        /\ pc[s] = "done"
               => /\ page[s].download.offered \/ page[s].error # NoExc
                  /\ ext[s].kind = "raise" => page[s].error = ext[s].exc
                  /\ ENABLED Trigger(s)

C6_Witness ==
    \E s \in sessions :
        pc[s] = "done" /\ page[s].error = RenderError /\ page[s].tab1 # PyNone

\* C7: a result is held, rendered or offered for download only after
\* parse_document of the same run returned, and it is the string returned.
C7_ResultOnlyAfterSuccess ==
    \A s \in sessions :
        LET returned(x) == pd[s].kind = "return" /\ ext[s].kind = "return" /\ x = pd[s].value IN
        /\ markdown_output[s] # PyNone => returned(markdown_output[s])
        /\ page[s].tab1 # PyNone => returned(page[s].tab1)
        /\ page[s].tab2 # PyNone => returned(page[s].tab2)
        /\ page[s].download.offered => returned(page[s].download.data)

C7_Witness ==
    \E s \in sessions :
        /\ page[s].download.offered
        /\ page[s].tab1 = pd[s].value
        /\ page[s].tab2 = pd[s].value
        /\ pd[s].value = PyStr(<< "A", "\n", "\n", "\n" >>)

\* C8: the download is offered under the uploaded name with the text from its
\* last '.' on replaced by "_translated.md"; doc.pdf with the one segment
\* "Hello" shows "Hello" and offers doc_translated.md.
C8_DownloadName ==
    \A s \in sessions :
        page[s].download.offered
            => LET name == upload[s].name IN
               /\ \E k \in 1..Len(name) :
                    /\ name[k] = "."
                    /\ \A j \in (k + 1)..Len(name) : name[j] # "."
                    /\ page[s].download.file_name
                         = SubSeq(name, 1, k - 1)
                             \o << "_", "t", "r", "a", "n", "s", "l", "a", "t", "e", "d", ".", "m", "d" >>
               /\ page[s].download.mime = "text/markdown"
               /\ (name = << "d", "o", "c", ".", "p", "d", "f" >>
                     /\ ext[s].value = << [text |-> << "H", "e", "l", "l", "o" >>] >>)
                    => /\ page[s].tab1 = PyStr(<< "H", "e", "l", "l", "o" >>)
                       /\ page[s].download.file_name
                            = << "d", "o", "c", "_", "t", "r", "a", "n", "s", "l", "a", "t", "e",
                                 "d", ".", "m", "d" >>

C8_Witness ==
    \E s \in sessions :
        /\ page[s].download.offered
        /\ upload[s].name = << "a", ".", ".", "p", "d", "f" >>

\* C9: a run issues at most one external call, and once that call has failed
\* the run is over: no further call without a new press of the button.
C9_NoAutomaticRetry ==
    \A s \in sessions :
        /\ calls[s] <= 1
        /\ ext[s].kind = "raise" => pc[s] = "done"

C9_Witness ==
    \E s \in sessions : ext[s].kind = "raise" /\ calls[s] = 1 /\ pc[s] = "done"

\* Session s has created a temporary file and not yet unlinked it.
Holding(s) == pc[s] \in { "write", "construct", "parse", "loading", "unlink" }

\* C10: under any interleaving each run works on a temporary file of its own:
\* the file exists until the run unlinks it, it holds the bytes this session
\* uploaded once written, and no other run holds the same name.
C10_TempFileNotShared ==
    \A s \in sessions :
        /\ Holding(s) => fs[tmp_file[s]].exists
        /\ pc[s] \in { "construct", "parse", "loading", "unlink" }
               => /\ tmp_file_path[s] = tmp_file[s]
                  /\ fs[tmp_file_path[s]].data = upload[s].bytes
        /\ \A t \in sessions \ { s } :
               Holding(s) /\ Holding(t) => tmp_file[s] # tmp_file[t]

C10_Witness ==
    /\ \A s \in sessions : pc[s] = "loading"
    /\ \E s \in sessions : \E t \in sessions \ { s } : tmp_file_path[s] # tmp_file_path[t]

====
